---- MODULE Spec2Model ----
(***************************************************************************)
(* A model of scriptUpdater.ts: the interval-gated update check            *)
(* (updateAvailable, getIntervalDate, compareVersion) and the file         *)
(* transitions of an update (downloadUpdate, installDownloadedScript,      *)
(* cleanFiles).                                                            *)
(*                                                                         *)
(* Time is counted in ticks, DayLen ticks to a local day, tick 0 being    *)
(* 00:00 on 1 January of a non-leap year.  The clock never runs backwards  *)
(* and a day always has DayLen ticks (no clock adjustment, no DST shift).  *)
(* Version strings are sequences of one-character strings, so that the     *)
(* grammar test, the split and parseInt are computed as the code does.     *)
(***************************************************************************)
EXTENDS Integers, Sequences, FiniteSets, TLC

VARIABLES now, store, calls, fs, op, cmpCall

vars == <<now, store, calls, fs, op, cmpCall>>

(***************************************************************************)
(* Bounds of the model.                                                    *)
(***************************************************************************)
\* ticks in one local day; tick 0 of a day is 00:00:00.000
DayLen == 2
\* number of ticks the clock may advance after the script was started
MaxTicks == 3
\* how many days before the start an earlier run may have written the cache
PriorDays == 32

(***************************************************************************)
(* The calendar behind Date.setDate / Date.setMonth / Date.setHours.       *)
(***************************************************************************)
MonthDays == <<31, 28, 31, 30, 31, 30, 31, 31, 30, 31, 30, 31>>

RECURSIVE MonthStart(_)
\* index of the first day of month m (1-based), counted from 1 January
MonthStart(m) == IF m <= 1 THEN 0 ELSE MonthStart(m - 1) + MonthDays[m - 1]

RECURSIVE MonthOf(_, _)
\* the month (1-based) that day index d of the year falls in, searching from m
MonthOf(d, m) ==
  IF m >= 12 \/ d < MonthStart(m + 1) THEN m ELSE MonthOf(d, m + 1)

\* the script is started at 00:00 on 1 March
StartTime == MonthStart(3) * DayLen
MaxTime == StartTime + MaxTicks
\* the times at which an earlier run of the script may have refreshed the cache
PriorTimes == (StartTime - PriorDays * DayLen)..(StartTime - 1)

\* d.setHours(0, 0, 0, 0)
setHours0(t) == t - (t % DayLen)

\* d.setDate(d.getDate() - n)
setDateBack(t, n) == t - n * DayLen

\* d.setMonth(d.getMonth() - 1): same day of month in the month before; a day
\* the month before does not have rolls over into the following month
setMonthBack(t) ==
  LET d == t \div DayLen
      m == MonthOf(d, 1)
      dom == d - MonthStart(m)
      first == IF m = 1 THEN 0 - MonthDays[12] ELSE MonthStart(m - 1)
  IN (first + dom) * DayLen + (t % DayLen)

\* function getIntervalDate(adjust): adjusted is adjust applied to new Date()
getIntervalDate(adjusted) == setHours0(adjusted)

updateCheckIntervalValues == {"every time", "daily", "weekly", "monthly"}

\* Record<UpdateCheckInterval, Date> built at time t
intervalDates(t) ==
  [i \in updateCheckIntervalValues |->
     CASE i = "every time" -> t
       [] i = "daily" -> getIntervalDate(t)
       [] i = "weekly" -> getIntervalDate(setDateBack(t, 7))
       [] i = "monthly" -> getIntervalDate(setMonthBack(t))]

\* the gate with a strict comparison
isStaleStrict(lastChecked, cutoff) == lastChecked < cutoff

\* the gate with the comparison turned around
isStaleReversed(lastChecked, cutoff) == lastChecked >= cutoff

\* the gate of line 45
isStale(lastChecked, cutoff) == lastChecked <= cutoff

(***************************************************************************)
(* compareVersion on character sequences.                                  *)
(***************************************************************************)
DigitChars == <<"0", "1", "2", "3", "4", "5", "6", "7", "8", "9">>

IsDigit(c) == \E k \in 1..Len(DigitChars) : DigitChars[k] = c

DigitValue(c) == (CHOOSE k \in 1..Len(DigitChars) : DigitChars[k] = c) - 1

RECURSIVE split(_, _, _)
\* a.split("."): cur is the part being read, acc the parts already closed
split(s, cur, acc) ==
  IF s = <<>> THEN Append(acc, cur)
  ELSE IF Head(s) = "." THEN split(Tail(s), <<>>, Append(acc, cur))
  ELSE split(Tail(s), Append(cur, Head(s)), acc)

\* the grammar with up to five components
regexTestFive(s) ==
  LET parts == split(s, <<>>, <<>>)
  IN /\ Len(parts) >= 1
     /\ Len(parts) <= 5
     /\ \A k \in 1..Len(parts) :
          /\ parts[k] # <<>>
          /\ \A j \in 1..Len(parts[k]) : IsDigit(parts[k][j])

\* /^\d+(?:\.\d+){0,3}$/.test(s)
regexTest(s) ==
  LET parts == split(s, <<>>, <<>>)
  IN /\ Len(parts) >= 1
     /\ Len(parts) <= 4
     /\ \A k \in 1..Len(parts) :
          /\ parts[k] # <<>>
          /\ \A j \in 1..Len(parts[k]) : IsDigit(parts[k][j])

RECURSIVE parseIntDigitSum(_, _)
\* the digits added up, the earlier ones not moved up a place
parseIntDigitSum(s, acc) ==
  IF s = <<>> THEN acc ELSE parseIntDigitSum(Tail(s), acc + DigitValue(Head(s)))

RECURSIVE parseInt(_, _)
\* parseInt of a string of decimal digits
parseInt(s, acc) ==
  IF s = <<>> THEN acc ELSE parseInt(Tail(s), acc * 10 + DigitValue(Head(s)))

\* a.split(".").map(i => parseInt(i))
partsOf(s) ==
  LET parts == split(s, <<>>, <<>>)
  IN [k \in 1..Len(parts) |-> parseInt(parts[k], 0)]

\* aParts.push(...new Array(n - aParts.length).fill(0)) when shorter than n
padTo(parts, n) ==
  [k \in 1..(IF Len(parts) < n THEN n ELSE Len(parts)) |->
     IF k <= Len(parts) THEN parts[k] ELSE 0]

RECURSIVE firstDifferencePositive(_, _, _)
\* the loop returning only a positive difference
firstDifferencePositive(aParts, bParts, i) ==
  IF i > Len(aParts) THEN 0
  ELSE IF aParts[i] - bParts[i] > 0 THEN aParts[i] - bParts[i]
  ELSE firstDifferencePositive(aParts, bParts, i + 1)

RECURSIVE firstDifference(_, _, _)
\* the loop of lines 131..135
firstDifference(aParts, bParts, i) ==
  IF i > Len(aParts) THEN 0
  ELSE IF aParts[i] - bParts[i] # 0 THEN aParts[i] - bParts[i]
  ELSE firstDifference(aParts, bParts, i + 1)

\* compareVersion(a, b): err names the rejected parameter ("" when none)
compareVersion(a, b) ==
  IF ~regexTest(a) THEN [err |-> "a", val |-> 0]
  ELSE IF ~regexTest(b) THEN [err |-> "b", val |-> 0]
  ELSE LET aParts == padTo(partsOf(a), Len(partsOf(b)))
           bParts == padTo(partsOf(b), Len(aParts))
       IN [err |-> "", val |-> firstDifference(aParts, bParts, 1)]

\* the predicate with the comparison turned around
isOlder(cmp) == cmp < 0

\* the predicate of the filter of line 58
isNewer(cmp) == cmp > 0

RECURSIVE filterNewer(_, _, _, _)
\* cached.versions.filter(v => compareVersion(v.version, currentVersion) > 0):
\* entries are visited in index order and the first throw ends the filter
filterNewer(versions, currentVersion, i, acc) ==
  IF i > Len(versions) THEN [err |-> "", list |-> acc]
  ELSE LET c == compareVersion(versions[i].version, currentVersion)
       IN IF c.err # "" THEN [err |-> c.err, list |-> <<>>]
          ELSE filterNewer(versions, currentVersion, i + 1,
                           IF isNewer(c.val) THEN Append(acc, versions[i]) ELSE acc)

(***************************************************************************)
(* Inputs.                                                                 *)
(***************************************************************************)
V(s, u) == [version |-> s, url |-> u]

Manifest1 == << V(<<"1", ".", "0">>, "u1"), V(<<"2", ".", "0">>, "u2"),
                V(<<"1", ".", "5">>, "u3") >>
Manifest2 == << V(<<"1", ".", "1", "0">>, "u4"), V(<<"1", ".", "9">>, "u5") >>

\* a response body: a JSON array of VersionData, another JSON value, or text
\* that is not JSON
JsonArray(items) == [kind |-> "array", items |-> items]
JsonObject == [kind |-> "object", items |-> <<>>]
NotJson == [kind |-> "text", items |-> <<>>]

Bodies == {JsonArray(<<>>), JsonArray(Manifest1), JsonArray(Manifest2),
           JsonObject, NotJson}

\* what await fetch(url) settles to: a rejection, or a Response
NoResponse == [kind |-> "none", ok |-> FALSE, body |-> NotJson]
Rejected == [kind |-> "rejected", ok |-> FALSE, body |-> NotJson]
Responses == [kind : {"http"}, ok : BOOLEAN, body : Bodies]

CurrentVersions == { <<"1", ".", "2">>, <<"1", ".", "2", "-", "b">> }

\* the calls that may be in flight at once: the Check for update button stays
\* enabled while a check is running
CallIds == {1, 2}

(***************************************************************************)
(* The file system: the paths the updater touches.  A directory holds, for *)
(* each file name, the content stored under it ("-" when there is none).   *)
(***************************************************************************)
\* Script.directory
ScriptDirectory == "Script.directory"
\* const scriptBackup = Script.directory + "_updateBackup"
scriptBackup == "Script.directory_updateBackup"
\* const unzippedFolder = Path.join(FileManager.temporaryDirectory, "scriptUpdate")
unzippedFolder == "tmp/scriptUpdate"
\* const path = Path.join(FileManager.temporaryDirectory, "scriptUpdate.zip")
zipPath == "tmp/scriptUpdate.zip"

Paths == {ScriptDirectory, scriptBackup, unzippedFolder, zipPath}

FileNames == {"index.tsx", "extra.tsx"}
NoFiles == [n \in FileNames |-> "-"]

Absent == [exists |-> FALSE, files |-> NoFiles]
EmptyDir == [exists |-> TRUE, files |-> NoFiles]
\* the script as installed before any update
InstalledScript == [exists |-> TRUE, files |-> [n \in FileNames |-> "v0"]]

\* the archives served under the download urls of the manifests: the files
\* each one extracts to
Urls == {"u3", "u5"}
ArchiveFiles(url) ==
  IF url = "u3" THEN [n \in FileNames |-> "u3"]
  ELSE [n \in FileNames |-> IF n = "index.tsx" THEN url ELSE "-"]

\* responses to the download request
DownloadResponses ==
  {[ok |-> TRUE, status |-> 200, statusText |-> "OK"],
   [ok |-> FALSE, status |-> 404, statusText |-> "Not Found"],
   [ok |-> FALSE, status |-> 500, statusText |-> "Internal Server Error"]}
\* no response has arrived
NoDownloadResponse == [ok |-> FALSE, status |-> 0, statusText |-> ""]

\* class DownloadError: the url and the response it was constructed with
DownloadError(url, response) == [url |-> url, response |-> response]
NoDownloadError == DownloadError("", NoDownloadResponse)

\* DownloadError.toString(): the parts the message is put together from
toString(e) == <<e.url, e.response.status, e.response.statusText>>

\* no file operation is in flight
IdleOp ==
  [kind |-> "none", pc |-> "idle", url |-> "", status |-> "none",
   response |-> NoDownloadResponse, error |-> NoDownloadError, ioError |-> FALSE,
   listing |-> {}, log |-> <<>>, before |-> <<>>]

(***************************************************************************)
(* State.                                                                  *)
(***************************************************************************)
\* StorageData as created by line 35..38 when Storage holds nothing
DefaultCache == [lastChecked |-> 0, versions |-> JsonArray(<<>>)]

\* Storage.get<StorageData>(storageKey) ?? default, on the Storage content s:
\* a copy of the record
Stored(s) == IF s.present THEN s.data ELSE DefaultCache
StorageGet == Stored(store)

IdleCall ==
  [pc |-> "idle", interval |-> "every time", currentVersion |-> <<>>,
   cached |-> DefaultCache, response |-> NoResponse,
   status |-> "none", result |-> <<>>, warned |-> FALSE, storeChanged |-> FALSE]

\* a compareVersion call outside a check: its arguments and what it gave
IdleCmp ==
  [pc |-> "idle", a |-> [text |-> <<>>, nums |-> <<>>, valid |-> FALSE],
   b |-> [text |-> <<>>, nums |-> <<>>, valid |-> FALSE],
   out |-> [err |-> "", val |-> 0]]

Init ==
  /\ cmpCall = IdleCmp
  /\ now = StartTime
  /\ store \in {[present |-> FALSE, data |-> DefaultCache]} \cup
                {[present |-> TRUE,
                  data |-> [lastChecked |-> t, versions |-> JsonArray(Manifest1)]] :
                   t \in PriorTimes}
  /\ calls = [p \in CallIds |-> IdleCall]
  /\ fs = [p \in Paths |-> IF p = ScriptDirectory THEN InstalledScript ELSE Absent]
  /\ op = IdleOp

(***************************************************************************)
(* updateAvailable.                                                        *)
(***************************************************************************)
\* lines 56..59 on the local cache c: the status and result of the call
Filtered(c, currentVersion) ==
  IF c.versions.kind # "array" THEN [status |-> "TypeError", result |-> <<>>]
  ELSE LET f == filterNewer(c.versions.items, currentVersion, 1, <<>>)
       IN IF f.err # "" THEN [status |-> "VersionError_" \o f.err, result |-> <<>>]
          ELSE [status |-> "ok", result |-> f.list]

\* lines 34..45 and, when the cache is fresh, lines 56..59: no await is
\* reached on that path, so the call settles in the same step
updateAvailable(p, interval, currentVersion) ==
  /\ calls[p].pc # "fetching"
  /\ LET cached == StorageGet
         call == [IdleCall EXCEPT !.interval = interval,
                                  !.currentVersion = currentVersion,
                                  !.cached = cached]
     IN IF isStale(cached.lastChecked, intervalDates(now)[interval])
        THEN calls' = [calls EXCEPT ![p] =
                         [call EXCEPT !.pc = "fetching", !.status = "pending"]]
        ELSE LET f == Filtered(cached, currentVersion)
             IN calls' = [calls EXCEPT ![p] =
                            [call EXCEPT !.pc = "done", !.status = f.status,
                                         !.result = f.result]]
  /\ UNCHANGED <<now, store, fs, op, cmpCall>>

\* Storage no longer holds what call p loaded (kept with the call for the
\* properties; the code never looks)
StoreChangedSince(p) == Stored(store) # calls[p].cached

\* await fetch(url) rejects (network error): the call rejects with it
FetchRejected(p) ==
  /\ calls[p].pc = "fetching"
  /\ calls' = [calls EXCEPT ![p] =
                 [@ EXCEPT !.pc = "done", !.response = Rejected,
                           !.status = "FetchError",
                           !.storeChanged = StoreChangedSince(p)]]
  /\ UNCHANGED <<now, store, fs, op, cmpCall>>

\* what Storage.set(storageKey, cached) leaves in the store
StorageSet(c, writeOk) ==
  IF writeOk THEN [present |-> TRUE, data |-> c] ELSE store

\* a failed Storage.set raised as an error
throwOnFailedSet(status) == "StorageError"

\* the status of the call when Storage.set returned false: the warning of
\* line 52 is logged and the call goes on
afterFailedSet(status) == status

\* the fetched list appended to the list Storage holds when the fetch settles
rereadAndMerge(old, body) ==
  IF body.kind = "array" /\ Stored(store).versions.kind = "array"
  THEN JsonArray(Stored(store).versions.items \o body.items)
  ELSE body

\* the list assigned to cached.versions by line 47
replaceVersions(old, body) == body

\* the hour of the day instead of the time value
getHours(t) == t % DayLen

\* the time assigned to cached.lastChecked by line 48: new Date().getTime()
getTime(t) == t

\* lines 46..59 once the fetch has settled with a response: response.json(),
\* the update of the local cache, Storage.set and the filter
FetchResolved(p, response, writeOk) ==
  /\ calls[p].pc = "fetching"
  /\ IF response.body.kind = "text"
     THEN /\ calls' = [calls EXCEPT ![p] =
                         [@ EXCEPT !.pc = "done", !.response = response,
                                   !.status = "SyntaxError",
                                   !.storeChanged = StoreChangedSince(p)]]
          /\ UNCHANGED store
     ELSE LET cached == [versions |-> replaceVersions(calls[p].cached.versions,
                                                      response.body),
                         lastChecked |-> getTime(now)]
              f == Filtered(cached, calls[p].currentVersion)
          IN /\ store' = StorageSet(cached, writeOk)
             /\ calls' = [calls EXCEPT ![p] =
                            [@ EXCEPT !.pc = "done", !.response = response,
                                      !.cached = cached,
                                      !.warned = ~writeOk,
                                      !.storeChanged = StoreChangedSince(p),
                                      !.status = IF writeOk THEN f.status
                                                 ELSE afterFailedSet(f.status),
                                      !.result = f.result]]
  /\ UNCHANGED <<now, fs, op, cmpCall>>

\* the clock advances
Tick ==
  /\ now < MaxTime
  /\ now' = now + 1
  /\ UNCHANGED <<store, calls, fs, op, cmpCall>>

Next ==
  \/ \E i \in updateCheckIntervalValues, cv \in CurrentVersions :
       updateAvailable(1, i, cv)
  \/ FetchRejected(1)
  \/ \E r \in Responses, w \in BOOLEAN : FetchResolved(1, r, w)
  \/ Tick

Spec == Init /\ [][Next]_vars

(***************************************************************************)
(* File operations.  One of downloadUpdate, installDownloadedScript and    *)
(* cleanFiles runs at a time; every await is a step of its own and every   *)
(* file-system call may fail with an I/O error (ioOk = FALSE).             *)
(***************************************************************************)
NoOpInFlight == op.pc \in {"idle", "done"}

StartOp(kind, pc, url) ==
  [IdleOp EXCEPT !.kind = kind, !.pc = pc, !.url = url, !.status = "pending",
                 !.before = fs]

\* the operation rejects with an error
Fail(status) == [op EXCEPT !.pc = "done", !.status = status]

\* the operation rejects because a file-system call failed with an I/O error
FailIO == [Fail("Error") EXCEPT !.ioError = TRUE]

\* FileManager.exists / existsSync
exists(path) == fs[path].exists

\* the file system after FileManager.rename(src, dst); the move is refused when
\* src is missing or dst is already there
CanRename(src, dst) == exists(src) /\ ~exists(dst)

Renamed(src, dst) == [fs EXCEPT ![dst] = fs[src], ![src] = Absent]

\* the file system after FileManager.remove(path)
Removed(path) == [fs EXCEPT ![path] = Absent]

\* the staging directory after FileManager.unzip(path, unzippedFolder): the
\* files of the archive are written over what the directory holds
Unzipped(dir, archive) ==
  [exists |-> TRUE,
   files |-> [n \in FileNames |->
                IF archive[n] # "-" THEN archive[n] ELSE dir.files[n]]]

\* FileManager.readDirectory(unzippedFolder, true)
readDirectory(dir) == {<<n, dir.files[n]>> : n \in {m \in FileNames : dir.files[m] # "-"}}

\* downloadUpdate(url), lines 77..78: up to the await of fetch
downloadUpdate(url) ==
  /\ NoOpInFlight
  /\ op' = StartOp("download", "fetch", url)
  /\ UNCHANGED <<now, store, calls, fs, cmpCall>>

\* line 78 rejects: the download rejects with the network error
DownloadFetchRejected ==
  /\ op.kind = "download" /\ op.pc = "fetch"
  /\ op' = Fail("FetchError")
  /\ UNCHANGED <<now, store, calls, fs, cmpCall>>

\* only a server error is refused
notOkServerError(response) == response.status >= 500

\* the test of line 79: !response.ok
notOk(response) == ~response.ok

\* lines 79..86: the response arrives; dataOk is whether Data.fromArrayBuffer
\* returned a value
DownloadFetchResolved(response, dataOk) ==
  /\ op.kind = "download" /\ op.pc = "fetch"
  /\ IF notOk(response)
     THEN op' = [Fail("DownloadError") EXCEPT
                   !.response = response,
                   !.error = DownloadError(op.url, response)]
     ELSE IF ~dataOk THEN op' = [Fail("Error") EXCEPT !.response = response]
     ELSE op' = [op EXCEPT !.pc = "writeAsData", !.response = response]
  /\ UNCHANGED <<now, store, calls, fs, cmpCall>>

\* line 86 settles, then line 87 decides between createDirectory and unzip
WriteAsDataSettled(ioOk) ==
  /\ op.kind = "download" /\ op.pc = "writeAsData"
  /\ IF ~ioOk
     THEN /\ op' = FailIO
          /\ UNCHANGED fs
     ELSE /\ fs' = [fs EXCEPT ![zipPath] =
                      [exists |-> TRUE, files |-> ArchiveFiles(op.url)]]
          /\ op' = [op EXCEPT !.pc = IF ~exists(unzippedFolder)
                                      THEN "createDirectory" ELSE "unzip"]
  /\ UNCHANGED <<now, store, calls, cmpCall>>

\* line 88 settles
CreateDirectorySettled(ioOk) ==
  /\ op.kind = "download" /\ op.pc = "createDirectory"
  /\ IF ~ioOk
     THEN /\ op' = FailIO
          /\ UNCHANGED fs
     ELSE /\ fs' = [fs EXCEPT ![unzippedFolder] = EmptyDir]
          /\ op' = [op EXCEPT !.pc = "unzip"]
  /\ UNCHANGED <<now, store, calls, cmpCall>>

\* line 90 settles, then line 92 returns the listing
UnzipSettled(ioOk) ==
  /\ op.kind = "download" /\ op.pc = "unzip"
  /\ IF ~ioOk
     THEN /\ op' = FailIO
          /\ UNCHANGED fs
     ELSE LET dir == Unzipped(fs[unzippedFolder], fs[zipPath].files)
          IN /\ fs' = [fs EXCEPT ![unzippedFolder] = dir]
             /\ op' = [op EXCEPT !.pc = "done", !.status = "ok",
                                 !.listing = readDirectory(dir)]
  /\ UNCHANGED <<now, store, calls, cmpCall>>

\* the two renames in the opposite order
installRenamesSwapped ==
  << [src |-> unzippedFolder, dst |-> ScriptDirectory],
     [src |-> ScriptDirectory, dst |-> scriptBackup] >>

\* the renames of installDownloadedScript in the order of lines 96 and 97
installRenames ==
  << [src |-> ScriptDirectory, dst |-> scriptBackup],
     [src |-> unzippedFolder, dst |-> ScriptDirectory] >>

Invoked(r) == [src |-> r.src, dst |-> r.dst, settled |-> "pending"]

\* installDownloadedScript(): up to the await of the first rename
installDownloadedScript ==
  /\ NoOpInFlight
  /\ op' = [StartOp("install", "rename", "") EXCEPT
              !.log = <<Invoked(installRenames[1])>>]
  /\ UNCHANGED <<now, store, calls, fs, cmpCall>>

\* the rename awaited last settles; after the first one the second is invoked
RenameSettled(ioOk) ==
  /\ op.kind = "install" /\ op.pc = "rename"
  /\ LET k == Len(op.log)
         r == op.log[k]
     IN IF ioOk /\ CanRename(r.src, r.dst)
        THEN /\ fs' = Renamed(r.src, r.dst)
             /\ op' = IF k < Len(installRenames)
                      THEN [op EXCEPT !.log = Append([op.log EXCEPT ![k].settled = "ok"],
                                                     Invoked(installRenames[k + 1]))]
                      ELSE [op EXCEPT !.log[k].settled = "ok", !.pc = "done",
                                      !.status = "ok"]
        ELSE /\ op' = [(IF ioOk THEN Fail("Error") ELSE FailIO) EXCEPT
                        !.log[k].settled = "failed"]
             /\ UNCHANGED fs
  /\ UNCHANGED <<now, store, calls, cmpCall>>

\* only the staging directory is cleaned
cleanTargetsStagingOnly == <<unzippedFolder>>

\* the directories cleanFiles looks at, in the order of lines 101 and 104
cleanTargets == <<scriptBackup, unzippedFolder>>

\* cleanFiles(): up to the await of the first exists
cleanFiles ==
  /\ NoOpInFlight
  /\ op' = [StartOp("clean", "exists", "") EXCEPT !.log = <<cleanTargets[1]>>]
  /\ UNCHANGED <<now, store, calls, fs, cmpCall>>

\* the operation moves on to the next directory, or returns after the last
CleanNext ==
  IF Len(op.log) < Len(cleanTargets)
  THEN [op EXCEPT !.pc = "exists", !.log = Append(op.log, cleanTargets[Len(op.log) + 1])]
  ELSE [op EXCEPT !.pc = "done", !.status = "ok"]

\* every directory is removed, there or not
alwaysRemove(path) == TRUE

\* the conditions of lines 101 and 104
needsRemove(path) == exists(path)

\* lines 101 / 104: FileManager.exists settles
ExistsSettled ==
  /\ op.kind = "clean" /\ op.pc = "exists"
  /\ op' = IF needsRemove(op.log[Len(op.log)]) THEN [op EXCEPT !.pc = "remove"]
           ELSE CleanNext
  /\ UNCHANGED <<now, store, calls, fs, cmpCall>>

\* lines 102 / 105: FileManager.remove settles; removing what is not there is
\* an error
RemoveSettled(ioOk) ==
  /\ op.kind = "clean" /\ op.pc = "remove"
  /\ IF ioOk /\ exists(op.log[Len(op.log)])
     THEN /\ fs' = Removed(op.log[Len(op.log)])
          /\ op' = CleanNext
     ELSE /\ op' = IF ioOk THEN Fail("Error") ELSE FailIO
          /\ UNCHANGED fs
  /\ UNCHANGED <<now, store, calls, cmpCall>>

NextInstall ==
  \/ \E u \in Urls : downloadUpdate(u)
  \/ DownloadFetchRejected
  \/ \E r \in DownloadResponses, d \in BOOLEAN : DownloadFetchResolved(r, d)
  \/ \E ioOk \in BOOLEAN : WriteAsDataSettled(ioOk)
  \/ \E ioOk \in BOOLEAN : CreateDirectorySettled(ioOk)
  \/ \E ioOk \in BOOLEAN : UnzipSettled(ioOk)
  \/ installDownloadedScript
  \/ \E ioOk \in BOOLEAN : RenameSettled(ioOk)
  \/ cleanFiles
  \/ ExistsSettled
  \/ \E ioOk \in BOOLEAN : RemoveSettled(ioOk)

\* the file operations on their own, from an empty Storage
InitInstall == Init /\ ~store.present

SpecInstall == InitInstall /\ [][NextInstall]_vars

(***************************************************************************)
(* Properties of updateAvailable (specification Spec).                     *)
(***************************************************************************)
\* a step in which call p is made (lines 34..45 run)
Begins(p) == calls[p].pc # "fetching" /\ calls'[p] # calls[p]

\* a step in which the fetch of call p settles and the call ends
Settles(p) == calls[p].pc = "fetching" /\ calls'[p].pc = "done"

\* the manifest fetch failed: a network error or a non-success status
FetchFailed(r) == r.kind = "rejected" \/ (r.kind = "http" /\ ~r.ok)

\* the manifest fetch succeeded with a manifest as its body
FetchSucceeded(r) == r.kind = "http" /\ r.ok /\ r.body.kind = "array"

\* the entries of list that are newer than currentVersion, in the order of list
NewerThan(list, currentVersion) ==
  SelectSeq(list, LAMBDA v : LET c == compareVersion(v.version, currentVersion)
                             IN c.err = "" /\ c.val > 0)

\* C1: when the manifest fetch of a call fails (network error or non-success
\* status), the call ends in an error and the stored record is the one the
\* call loaded.
C1_FailedFetchLeavesCache ==
  [][\A p \in CallIds :
       (Settles(p) /\ FetchFailed(calls'[p].response))
         => /\ calls'[p].status # "ok"
            /\ store' = store
            /\ Stored(store') = calls[p].cached]_vars

\* time t is less than the length of interval i after the check at time last
WithinInterval(i, last, t) ==
  /\ last <= t
  /\ CASE i = "daily" -> t - last < DayLen
       [] i = "weekly" -> t - last < 7 * DayLen
       [] i = "monthly" -> setMonthBack(t) < last

\* C2: a call made less than the interval (a day, seven days, a month) after
\* the stored lastChecked makes no request and works on the stored list.
C2_NoRequestWithinInterval ==
  [][\A p \in CallIds :
       (/\ Begins(p)
        /\ calls'[p].interval \in {"daily", "weekly", "monthly"}
        /\ store.present
        /\ WithinInterval(calls'[p].interval, store.data.lastChecked, now))
         => /\ calls'[p].pc = "done"
            /\ calls'[p].response = NoResponse
            /\ calls'[p].cached = store.data]_vars

\* C3: a "daily" call made when the stored lastChecked is the current time
\* issues no fetch, leaves the store alone and returns the filter of the
\* stored versions.
C3_DailyAtLastCheckedReusesCache ==
  [][\A p \in CallIds :
       (/\ Begins(p)
        /\ calls'[p].interval = "daily"
        /\ store.present
        /\ store.data.lastChecked = now)
         => /\ calls'[p].pc = "done"
            /\ calls'[p].response = NoResponse
            /\ store' = store
            /\ calls'[p].cached = store.data]_vars

\* C4: every call with interval "every time" issues a fetch.
C4_EveryTimeAlwaysFetches ==
  [][\A p \in CallIds :
       (Begins(p) /\ calls'[p].interval = "every time")
         => calls'[p].pc = "fetching"]_vars

\* an "every time" call is fetching although the store was refreshed at this
\* very tick
C4_Witness ==
  /\ calls[1].pc = "fetching"
  /\ calls[1].interval = "every time"
  /\ store.present
  /\ store.data.lastChecked = now
  /\ now > StartTime

\* C5: a call that returns, returns the entries of its (stored or just
\* fetched) version list that compare greater than currentVersion, in the
\* order of that list.
C5_ResultIsNewerEntriesInOrder ==
  \A p \in CallIds :
    (calls[p].pc = "done" /\ calls[p].status = "ok")
      => /\ calls[p].cached.versions.kind = "array"
         /\ calls[p].result =
              NewerThan(calls[p].cached.versions.items, calls[p].currentVersion)
         /\ calls[p].response.kind = "http"
              => calls[p].cached.versions = calls[p].response.body
         /\ calls[p].response.kind = "none"
              => calls[p].cached = Stored(store)

\* versions ["1.0", "2.0", "1.5"] checked against "1.2" gave ["2.0", "1.5"]
C5_Witness ==
  /\ calls[1].pc = "done"
  /\ calls[1].status = "ok"
  /\ calls[1].currentVersion = <<"1", ".", "2">>
  /\ calls[1].cached.versions = JsonArray(Manifest1)
  /\ calls[1].result = <<Manifest1[2], Manifest1[3]>>

\* C6: a call whose currentVersion does not match the grammar ends in a
\* validation error once it has a version list to filter, an empty one
\* included.
C6_InvalidCurrentVersionFails ==
  \A p \in CallIds :
    (/\ calls[p].pc = "done"
     /\ ~regexTest(calls[p].currentVersion)
     /\ calls[p].response.kind \in {"none", "http"}
     /\ calls[p].cached.versions.kind = "array"
     /\ calls[p].response.kind = "http" => calls[p].response.body.kind = "array")
      => calls[p].status \in {"VersionError_a", "VersionError_b"}

\* C7: the stored lastChecked never decreases.
C7_LastCheckedNeverDecreases ==
  [][/\ store.present => store'.present
     /\ Stored(store').lastChecked >= Stored(store).lastChecked]_vars

\* a refresh has replaced the record of an earlier run by one stamped later
C7_Witness ==
  /\ calls[1].pc = "done"
  /\ calls[1].response.kind = "http"
  /\ ~calls[1].warned
  /\ store.present
  /\ store.data = calls[1].cached
  /\ store.data.lastChecked > StartTime
  /\ store.data.versions # JsonArray(Manifest1)

\* C8: the store is changed only by a successful refresh, and a successful
\* refresh whose write succeeds leaves the fetched body as the stored versions.
C8_StoreHoldsLastSuccessfulFetch ==
  [][/\ store' # store
          => \E p \in CallIds :
               /\ Settles(p)
               /\ FetchSucceeded(calls'[p].response)
               /\ store'.present
               /\ store'.data.versions = calls'[p].response.body
     /\ \A p \in CallIds :
          (Settles(p) /\ FetchSucceeded(calls'[p].response) /\ ~calls'[p].warned)
            => store'.present /\ store'.data.versions = calls'[p].response.body]_vars

\* no version string the filter looks at is rejected by compareVersion
AllValid(list, currentVersion) ==
  \A k \in 1..Len(list) : compareVersion(list[k].version, currentVersion).err = ""

\* C9: when the fetch succeeded and Storage.set failed, the call logs the
\* warning and ends as the filter of the fetched list ends, with no error of
\* its own, and the store is left as it was.
C9_FailedWriteIsNotAnError ==
  [][\A p \in CallIds :
       (Settles(p) /\ FetchSucceeded(calls'[p].response) /\ calls'[p].warned)
         => /\ store' = store
            /\ calls'[p].cached.versions = calls'[p].response.body
            /\ calls'[p].status \in {"ok", "VersionError_a", "VersionError_b"}
            /\ AllValid(calls'[p].response.body.items, calls'[p].currentVersion)
                 => /\ calls'[p].status = "ok"
                    /\ calls'[p].result =
                         NewerThan(calls'[p].response.body.items,
                                   calls'[p].currentVersion)]_vars

\* a call returned the newer entries of a fetched manifest that the store
\* does not hold, after the warning
C9_Witness ==
  /\ calls[1].pc = "done"
  /\ calls[1].warned
  /\ FetchSucceeded(calls[1].response)
  /\ calls[1].status = "ok"
  /\ calls[1].result # <<>>
  /\ Stored(store).versions # calls[1].response.body

(***************************************************************************)
(* Properties of the file operations (specification SpecInstall).          *)
(***************************************************************************)
\* C10: install invokes the staging -> live rename only after the
\* live -> backup rename has completed, and while the second rename is
\* pending or has failed, the old version is at the backup path, the staging
\* directory is as it was and nothing is at the live path.
C10_InstallOrder ==
  op.kind = "install" =>
    /\ \A j \in 1..Len(op.log) :
         (op.log[j].src = unzippedFolder /\ op.log[j].dst = ScriptDirectory)
           => \E i \in 1..(j - 1) :
                op.log[i] = [src |-> ScriptDirectory, dst |-> scriptBackup,
                             settled |-> "ok"]
    /\ (Len(op.log) = 2 /\ op.log[2].settled # "ok")
         => /\ ~fs[ScriptDirectory].exists
            /\ fs[scriptBackup] = op.before[ScriptDirectory]
            /\ fs[unzippedFolder] = op.before[unzippedFolder]

\* an install failed at its second rename with a downloaded update staged
C10_Witness ==
  /\ op.kind = "install"
  /\ op.pc = "done"
  /\ op.status = "Error"
  /\ Len(op.log) = 2
  /\ op.log[2].settled = "failed"
  /\ fs[unzippedFolder].exists
  /\ fs[scriptBackup] = InstalledScript
  /\ ~fs[ScriptDirectory].exists

\* C11: a download whose response has a non-success status ends in a
\* DownloadError made of the url of the call and that response (so its message
\* names the url, the status and the reason), and has written nothing: the
\* archive path and the staging directory are as they were before the call.
C11_FailedDownloadWritesNothing ==
  (op.kind = "download" /\ op.response \in DownloadResponses /\ ~op.response.ok)
    => /\ op.pc = "done"
       /\ op.status = "DownloadError"
       /\ toString(op.error) = <<op.url, op.response.status, op.response.statusText>>
       /\ fs = op.before

\* a download was answered 404 and ended in the DownloadError of its url
C11_Witness ==
  /\ op.kind = "download"
  /\ op.pc = "done"
  /\ op.status = "DownloadError"
  /\ op.response.status = 404
  /\ op.error.url = "u3"
  /\ ~fs[zipPath].exists
  /\ ~fs[unzippedFolder].exists

\* C12: a cleanup in which no file-system call fails on I/O ends without
\* error and leaves the backup and the staging directory absent, whichever of
\* them was there before; started with both absent it changes nothing.
C12_CleanupIdempotent ==
  (op.kind = "clean" /\ op.pc = "done" /\ ~op.ioError)
    => /\ op.status = "ok"
       /\ ~fs[scriptBackup].exists
       /\ ~fs[unzippedFolder].exists
       /\ (~op.before[scriptBackup].exists /\ ~op.before[unzippedFolder].exists)
            => fs = op.before

\* a cleanup that found neither directory ended without error, the script
\* having been updated and cleaned up before
C12_Witness ==
  /\ op.kind = "clean"
  /\ op.pc = "done"
  /\ op.status = "ok"
  /\ ~op.before[scriptBackup].exists
  /\ ~op.before[unzippedFolder].exists
  /\ fs[ScriptDirectory].exists
  /\ fs[ScriptDirectory] # InstalledScript

\* C13: a call made while Storage holds no record issues a fetch, whatever
\* its interval.
C13_FirstCheckAlwaysFetches ==
  [][\A p \in CallIds :
       (Begins(p) /\ ~store.present)
         => /\ calls'[p].pc = "fetching"
            /\ calls'[p].cached = DefaultCache]_vars

\* a first check with interval "monthly" is fetching
C13_Witness ==
  /\ ~store.present
  /\ calls[1].pc = "fetching"
  /\ calls[1].interval = "monthly"
  /\ calls[1].cached = DefaultCache

(***************************************************************************)
(* compareVersion on its own (specification SpecCompare): the arguments    *)
(* are version strings written out from lists of numbers, and strings      *)
(* outside the grammar.                                                    *)
(***************************************************************************)
\* the numbers the components of the valid arguments are taken from
Components == {0, 1, 9, 10}
\* the most components the grammar of line 115 admits
MaxComponents == 4

\* the decimal digits of a number below 100
Digits(n) ==
  IF n < 10 THEN <<DigitChars[n + 1]>>
  ELSE <<DigitChars[(n \div 10) + 1], DigitChars[(n % 10) + 1]>>

RECURSIVE Dotted(_)
\* the numbers of ns written in decimal and joined by "."
Dotted(ns) ==
  IF Len(ns) = 1 THEN Digits(ns[1])
  ELSE Digits(ns[1]) \o <<".">> \o Dotted(Tail(ns))

ValidArguments ==
  {[text |-> Dotted(ns), nums |-> ns, valid |-> TRUE] :
     ns \in UNION {[1..n -> Components] : n \in 1..MaxComponents}}

\* strings outside the grammar: a pre-release suffix, the empty string, five
\* components, an empty component, a letter
InvalidTexts ==
  { <<"1", ".", "2", "-", "b", "e", "t", "a">>, <<>>,
    <<"1", ".", "2", ".", "3", ".", "4", ".", "5">>,
    <<"1", ".", ".", "9">>, <<".", "1">>, <<"1", ".">>, <<"b">> }

InvalidArguments == {[text |-> t, nums |-> <<>>, valid |-> FALSE] : t \in InvalidTexts}

Arguments == ValidArguments \cup InvalidArguments

InitCompare ==
  /\ now = StartTime
  /\ store = [present |-> FALSE, data |-> DefaultCache]
  /\ calls = [p \in CallIds |-> IdleCall]
  /\ fs = [p \in Paths |-> IF p = ScriptDirectory THEN InstalledScript ELSE Absent]
  /\ op = IdleOp
  /\ cmpCall \in {[IdleCmp EXCEPT !.pc = "ready", !.a = a, !.b = b] :
                a \in Arguments, b \in Arguments}

\* compareVersion(a, b) is called and returns or throws
Compare ==
  /\ cmpCall.pc = "ready"
  /\ cmpCall' = [cmpCall EXCEPT !.pc = "done",
                        !.out = compareVersion(cmpCall.a.text, cmpCall.b.text)]
  /\ UNCHANGED <<now, store, calls, fs, op>>

NextCompare == Compare

SpecCompare == InitCompare /\ [][NextCompare]_vars

\* C14: for valid a and b, compareVersion(a, b) is the negation of
\* compareVersion(b, a), and compareVersion(a, a) is 0.
C14_Antisymmetric ==
  (cmpCall.pc = "done" /\ cmpCall.a.valid /\ cmpCall.b.valid)
    => /\ cmpCall.out.err = ""
       /\ compareVersion(cmpCall.b.text, cmpCall.a.text).err = ""
       /\ cmpCall.out.val = 0 - compareVersion(cmpCall.b.text, cmpCall.a.text).val
       /\ cmpCall.a.text = cmpCall.b.text => cmpCall.out.val = 0

\* two valid versions of different length compared unequal
C14_Witness ==
  /\ cmpCall.pc = "done"
  /\ cmpCall.a.valid /\ cmpCall.b.valid
  /\ Len(cmpCall.a.nums) < Len(cmpCall.b.nums)
  /\ cmpCall.out.val < 0

\* component i of ns once ns is padded with zeros
Component(ns, i) == IF i <= Len(ns) THEN ns[i] ELSE 0

\* the first non-zero difference of the zero-padded components, 0 if none
FirstNonZeroDifference(an, bn) ==
  LET n == IF Len(an) < Len(bn) THEN Len(bn) ELSE Len(an)
      differing == {i \in 1..n : Component(an, i) # Component(bn, i)}
  IN IF differing = {} THEN 0
     ELSE LET k == CHOOSE i \in differing : \A j \in differing : i <= j
          IN Component(an, k) - Component(bn, k)

\* C15: for valid a and b, compareVersion returns the first non-zero
\* difference, from the left, of the numbers the components stand for, the
\* shorter argument padded with zeros, and 0 when there is none: "1.9" is
\* below "1.10" and "1.9" equals "1.9.0.0".
C15_FirstNumericDifference ==
  (cmpCall.pc = "done" /\ cmpCall.a.valid /\ cmpCall.b.valid)
    => /\ cmpCall.out = [err |-> "", val |-> FirstNonZeroDifference(cmpCall.a.nums, cmpCall.b.nums)]
       /\ (cmpCall.a.nums = <<1, 9>> /\ cmpCall.b.nums = <<1, 10>>) => cmpCall.out.val < 0
       /\ (cmpCall.a.nums = <<1, 9>> /\ cmpCall.b.nums = <<1, 9, 0, 0>>) => cmpCall.out.val = 0

\* "1.9" was compared with "1.10" and came out below it
C15_Witness ==
  /\ cmpCall.pc = "done"
  /\ cmpCall.a.text = <<"1", ".", "9">>
  /\ cmpCall.b.text = <<"1", ".", "1", "0">>
  /\ cmpCall.out.err = ""
  /\ cmpCall.out.val = 0 - 1

\* C16: compareVersion throws the error naming "a" when a is outside the
\* grammar, the error naming "b" when a is inside and b outside, and throws
\* nothing when both are inside.
C16_RejectsInvalid ==
  cmpCall.pc = "done"
    => cmpCall.out.err = (IF ~cmpCall.a.valid THEN "a" ELSE IF ~cmpCall.b.valid THEN "b" ELSE "")

\* "1.2-beta" was rejected as parameter a, and five components as parameter b
C16_Witness ==
  /\ cmpCall.pc = "done"
  /\ \/ /\ cmpCall.a.text = <<"1", ".", "2", "-", "b", "e", "t", "a">>
        /\ cmpCall.b.text = <<"1", ".", "0">>
        /\ cmpCall.out.err = "a"
     \/ /\ cmpCall.a.text = <<"1", ".", "0">>
        /\ cmpCall.b.text = <<"1", ".", "2", ".", "3", ".", "4", ".", "5">>
        /\ cmpCall.out.err = "b"

(***************************************************************************)
(* The normal flow (specification SpecFlow): a download, then an install,  *)
(* then a cleanup, again and again, each begun only when the operation     *)
(* before it has returned without error.                                   *)
(***************************************************************************)
Returned(kind) == op.kind = kind /\ op.pc = "done" /\ op.status = "ok"

FlowDownload(url) == (op.pc = "idle" \/ Returned("clean")) /\ downloadUpdate(url)

FlowInstall == Returned("download") /\ installDownloadedScript

FlowClean == Returned("install") /\ cleanFiles

NextFlow ==
  \/ \E u \in Urls : FlowDownload(u)
  \/ DownloadFetchRejected
  \/ \E r \in DownloadResponses, d \in BOOLEAN : DownloadFetchResolved(r, d)
  \/ \E ioOk \in BOOLEAN : WriteAsDataSettled(ioOk)
  \/ \E ioOk \in BOOLEAN : CreateDirectorySettled(ioOk)
  \/ \E ioOk \in BOOLEAN : UnzipSettled(ioOk)
  \/ FlowInstall
  \/ \E ioOk \in BOOLEAN : RenameSettled(ioOk)
  \/ FlowClean
  \/ ExistsSettled
  \/ \E ioOk \in BOOLEAN : RemoveSettled(ioOk)

SpecFlow == InitInstall /\ [][NextFlow]_vars

\* C17: between the operations of the normal flow at most one of the staging
\* and the backup directory exists, and after the cleanup neither does.
C17_AtMostOneOfStagingAndBackup ==
  (op.pc = "idle" \/ (op.pc = "done" /\ op.status = "ok"))
    => /\ ~(fs[unzippedFolder].exists /\ fs[scriptBackup].exists)
       /\ op.kind = "clean"
            => ~fs[unzippedFolder].exists /\ ~fs[scriptBackup].exists
       /\ op.kind = "download"
            => fs[unzippedFolder].exists /\ ~fs[scriptBackup].exists
       /\ op.kind = "install"
            => ~fs[unzippedFolder].exists /\ fs[scriptBackup].exists

\* the second round of the flow has installed its update: the backup holds
\* the update of the first round and the staging directory is gone
C17_Witness ==
  /\ Returned("install")
  /\ fs[scriptBackup].exists
  /\ fs[scriptBackup] # InstalledScript
  /\ ~fs[unzippedFolder].exists

\* a directory that holds the script
HoldsScript(dir) == dir.exists /\ dir.files["index.tsx"] # "-"

\* C19: whatever downloads, installs and cleanups have run or failed, the
\* script is at the live path or at the backup path.
C19_ScriptAtLiveOrBackup ==
  HoldsScript(fs[ScriptDirectory]) \/ HoldsScript(fs[scriptBackup])

\* C20: after a download that returned, the staging directory and the
\* returned listing hold the files of the archive of this call and no others.
C20_StagingHoldsOnlyThisArchive ==
  Returned("download")
    => /\ fs[unzippedFolder].exists
       /\ fs[unzippedFolder].files = ArchiveFiles(op.url)
       /\ op.listing = readDirectory([exists |-> TRUE, files |-> ArchiveFiles(op.url)])

(***************************************************************************)
(* Overlapping checks (specification SpecOverlap): two calls may be in     *)
(* flight at once, and the stored record may be written from outside.      *)
(***************************************************************************)
\* the records another writer may put into Storage
ExternalRecords(t) == {[lastChecked |-> t, versions |-> JsonArray(Manifest2)]}

\* the record under storageKey is written from outside the calls
ExternalSet ==
  /\ \E c \in ExternalRecords(now) :
       /\ store # [present |-> TRUE, data |-> c]
       /\ store' = [present |-> TRUE, data |-> c]
  /\ UNCHANGED <<now, calls, fs, op, cmpCall>>

\* number of ticks the clock may advance while calls overlap
OverlapTicks == 1

\* the clock advances
TickOverlap ==
  /\ now < StartTime + OverlapTicks
  /\ now' = now + 1
  /\ UNCHANGED <<store, calls, fs, op, cmpCall>>

\* the inputs of the overlapping calls
OverlapIntervals == {"every time", "daily"}
OverlapVersions == { <<"1", ".", "2">> }
OverlapResponses ==
  [kind : {"http"}, ok : {TRUE},
   body : {JsonArray(<<>>), JsonArray(Manifest1), JsonArray(Manifest2)}]

NextOverlap ==
  \/ \E p \in CallIds, i \in OverlapIntervals, cv \in OverlapVersions :
       updateAvailable(p, i, cv)
  \/ \E p \in CallIds : FetchRejected(p)
  \/ \E p \in CallIds, r \in OverlapResponses, w \in BOOLEAN : FetchResolved(p, r, w)
  \/ ExternalSet
  \/ TickOverlap

SpecOverlap == InitInstall /\ [][NextOverlap]_vars

\* C18: a call reads Storage once, when it is made; while its fetch is
\* pending nothing of the call changes, whatever is written to Storage; when
\* the fetch settles the call saves and filters the list it fetched, stamped
\* with the time of the save, so that Storage holds the record of whoever
\* saved last.
C18_CallIgnoresConcurrentChange ==
  [][/\ \A p \in CallIds :
          /\ Begins(p) => (calls'[p].cached = Stored(store) /\ store' = store)
          /\ (calls[p].pc = "fetching" /\ ~Settles(p)) => calls'[p] = calls[p]
          /\ (Settles(p) /\ calls'[p].response.kind = "http"
                /\ calls'[p].response.body.kind = "array")
               => /\ calls'[p].cached =
                       [versions |-> calls'[p].response.body, lastChecked |-> now]
                  /\ calls'[p].warned => store' = store
                  /\ ~calls'[p].warned
                       => store' = [present |-> TRUE, data |-> calls'[p].cached]
                  /\ AllValid(calls'[p].response.body.items, calls'[p].currentVersion)
                       => /\ calls'[p].status = "ok"
                          /\ calls'[p].result =
                               NewerThan(calls'[p].response.body.items,
                                         calls'[p].currentVersion)
     /\ store' # store
          => /\ store'.present
             /\ \/ store'.data \in ExternalRecords(now)
                \/ \E p \in CallIds : Settles(p) /\ store'.data = calls'[p].cached]_vars

\* call 1 saved last: Storage had been changed since it loaded, the other
\* call had saved another list, and Storage holds the record of call 1
C18_Witness ==
  /\ calls[1].pc = "done"
  /\ calls[1].storeChanged
  /\ FetchSucceeded(calls[1].response)
  /\ ~calls[1].warned
  /\ calls[2].pc = "done"
  /\ FetchSucceeded(calls[2].response)
  /\ ~calls[2].warned
  /\ calls[2].cached.versions # calls[1].cached.versions
  /\ calls[2].cached.versions.items # <<>>
  /\ store.present
  /\ store.data = calls[1].cached
  /\ calls[1].result = NewerThan(calls[1].response.body.items, calls[1].currentVersion)

====
